---- MODULE Spec2Model ----
(***************************************************************************)
(* The block-node parser of biome_yaml_parser (parser/block.rs,            *)
(* parser/flow.rs, parser/implicit.rs) as a call-stack machine over a      *)
(* token source.  Functions without recursion are operators on the parser  *)
(* record; functions on the recursive path are actions that push and pop   *)
(* frames.                                                                 *)
(***************************************************************************)
EXTENDS Integers, Sequences, FiniteSets, TLC

\* Longest input, in lexical units.
MaxLen == 4

\* Longest input over the structural alphabet, in lexical units.
MaxLongLen == 6

\* implicit.rs: const MAX_IMPLICIT_KEY_SIZE: u32 = 1024;
MAX_IMPLICIT_KEY_SIZE == 1024

VARIABLES
    input,          \* the source: a sequence of lexical units
    pos,            \* token cursor: index of the unit the current token starts at
    cur,            \* the current token as last lexed: [kind, n, ctx]
    events,         \* tree events emitted so far
    diags,          \* diagnostics emitted so far
    indent_level,   \* YamlParser::indent_level
    stack,          \* call stack of the recursive descent
    ret,            \* value returned by the last call that returned
    status,         \* "running", "done" or "panic"
    probed          \* the calls of the implicit key prober that have returned

vars == <<input, pos, cur, events, diags, indent_level, stack, ret, status, probed>>

(***************************************************************************)
(* Token source.                                                           *)
(***************************************************************************)
StructuralKinds ==
    {"COLON", "QUESTION", "NEWLINE", "INDENT", "DEDENT", "DOC_END",
     "LITERAL_BLOCK_LITERAL", "FOLDED_BLOCK_LITERAL"}

Unit(k, l, c) == [kind |-> k, len |-> l, cont |-> c]

\* A plain scalar piece is short, or one character over the key bound, or a
\* continuation line that a multi-line context folds into the scalar before it.
Units ==
    {Unit("PLAIN_LITERAL", 1, FALSE),
     Unit("PLAIN_LITERAL", MAX_IMPLICIT_KEY_SIZE + 1, FALSE),
     Unit("PLAIN_LITERAL", 1, TRUE)}
    \cup {Unit(k, 1, FALSE) : k \in StructuralKinds}

Inputs == UNION {[1..n -> Units] : n \in 0..MaxLen}

\* Longer sources made of short scalars and the tokens that give a mapping its
\* structure.
LongUnits ==
    {Unit(k, 1, FALSE) :
        k \in {"PLAIN_LITERAL", "COLON", "QUESTION", "NEWLINE", "INDENT", "DEDENT"}}

LongInputs == UNION {[1..n -> LongUnits] : n \in 0..MaxLongLen}

LexContexts == {"Regular", "BlockKey", "FlowOut"}

\* Number of units a plain scalar starting at unit i covers when it may span
\* lines: it takes every following NEWLINE + continuation piece.
RECURSIVE Extent(_)
Extent(i) ==
    IF /\ i + 2 <= Len(input)
       /\ input[i + 1].kind = "NEWLINE"
       /\ input[i + 2].kind = "PLAIN_LITERAL"
       /\ input[i + 2].cont
    THEN 2 + Extent(i + 2)
    ELSE 1

\* The token at unit i under a lex context.
Lex(i, context) ==
    IF i > Len(input)
    THEN [kind |-> "EOF", n |-> 0, ctx |-> context]
    ELSE [kind |-> input[i].kind,
          n    |-> IF input[i].kind = "PLAIN_LITERAL" /\ context = "FlowOut"
                   THEN Extent(i) ELSE 1,
          ctx  |-> context]

\* Character offset of unit i.
RECURSIVE Offset(_)
Offset(i) == IF i <= 1 THEN 0 ELSE Offset(i - 1) + input[i - 1].len

(***************************************************************************)
(* Parser primitives, on a parser record q.                                *)
(***************************************************************************)
P == [pos |-> pos, cur |-> cur, events |-> events, diags |-> diags,
      indent_level |-> indent_level, panic |-> FALSE]

Ev(e, k, a, n, c) == [e |-> e, kind |-> k, at |-> a, n |-> n, ctx |-> c]

Diag(d, k) == [d |-> d, kind |-> k]

\* Evaluate the parser record once and hand its value on.
Bind(qq, Op(_)) == CHOOSE r \in {Op(q) : q \in {qq}} : TRUE

at(q, kind) == q.cur.kind = kind

position(q) == Offset(q.pos)

do_bump(qq) ==
    Bind(qq, LAMBDA q :
        [q EXCEPT !.events = Append(@, Ev("tok", q.cur.kind, q.pos, q.cur.n, q.cur.ctx)),
                  !.pos = q.pos + q.cur.n,
                  !.cur = Lex(q.pos + q.cur.n, "Regular")])

bump(qq, kind) ==
    Bind(qq, LAMBDA q :
        IF q.panic THEN q
        ELSE IF at(q, kind) THEN do_bump(q)
        ELSE [q EXCEPT !.panic = TRUE])

eat(qq, kind) ==
    Bind(qq, LAMBDA q :
        IF q.panic THEN q
        ELSE IF at(q, kind) THEN do_bump(q) ELSE q)

expect(qq, kind) ==
    Bind(qq, LAMBDA q :
        IF q.panic THEN q
        ELSE IF at(q, kind) THEN do_bump(q)
        ELSE [q EXCEPT !.diags = Append(@, Diag("expected_token", kind)),
                       !.events = Append(@, Ev("missing", kind, q.pos, 0, "-"))])

re_lex(qq, context) ==
    Bind(qq, LAMBDA q :
        IF q.panic THEN q ELSE [q EXCEPT !.cur = Lex(q.pos, context)])

marker(q) == Len(q.events) + 1

start(qq) ==
    Bind(qq, LAMBDA q :
        IF q.panic THEN q
        ELSE [q EXCEPT !.events = Append(@, Ev("start", "TOMBSTONE", 0, 0, "-"))])

complete(qq, m, kind) ==
    Bind(qq, LAMBDA q :
        IF q.panic THEN q
        ELSE [q EXCEPT !.events = Append([@ EXCEPT ![m].kind = kind],
                                         Ev("finish", kind, 0, 0, "-"))])

error(qq, d) ==
    Bind(qq, LAMBDA q :
        IF q.panic THEN q ELSE [q EXCEPT !.diags = Append(@, d)])

NoCheckpoint ==
    [pos |-> 0, cur |-> [kind |-> "EOF", n |-> 0, ctx |-> "Regular"],
     events |-> 0, diags |-> 0]

checkpoint(q) ==
    [pos |-> q.pos, cur |-> q.cur, events |-> Len(q.events), diags |-> Len(q.diags)]

\* A rewind that restores the cursor and leaves the events and diagnostics of
\* the abandoned branch in place.
rewind_cursor_only(q, c) ==
    [q EXCEPT !.pos = c.pos,
              !.cur = c.cur]

rewind(q, c) ==
    [q EXCEPT !.pos = c.pos,
              !.cur = c.cur,
              !.events = SubSeq(@, 1, c.events),
              !.diags = SubSeq(@, 1, c.diags)]

(***************************************************************************)
(* flow.rs                                                                 *)
(***************************************************************************)
is_at_plain_scalar(q) == at(q, "PLAIN_LITERAL")

is_at_flow_yaml_node(q) == is_at_plain_scalar(q)

is_at_any_flow_node(q) == is_at_flow_yaml_node(q)

\* The literal bumped as the lexer first buffered it.
parse_plain_scalar_no_re_lex(q, context) ==
    LET m  == marker(q)
        q2 == start(q)
        q3 == bump(q2, "PLAIN_LITERAL")
    IN  complete(q3, m, "YAML_PLAIN_SCALAR")

parse_plain_scalar(q, context) ==
    LET q1 == re_lex(q, context)
        m  == marker(q1)
        q2 == start(q1)
        q3 == bump(q2, "PLAIN_LITERAL")
    IN  complete(q3, m, "YAML_PLAIN_SCALAR")

parse_flow_yaml_node(q, context) ==
    LET m  == marker(q)
        q1 == start(q)
        q2 == parse_plain_scalar(q1, context)
    IN  complete(q2, m, "YAML_FLOW_YAML_NODE")

parse_any_flow_node(q, context) == parse_flow_yaml_node(q, context)

(***************************************************************************)
(* implicit.rs                                                             *)
(***************************************************************************)
\* Result: "Err" (ImplicitConstraintViolation) or Ok(bool) as "True"/"False".
expect_in_implicit_constrain(q, kind, start_pos) ==
    IF position(q) - start_pos > MAX_IMPLICIT_KEY_SIZE
    THEN [q |-> q, res |-> "Err"]
    ELSE IF at(q, "NEWLINE")
    THEN [q |-> q, res |-> "Err"]
    ELSE [q |-> expect(q, kind), res |-> IF at(q, kind) THEN "True" ELSE "False"]

\* The result of expect_in_implicit_constrain is dropped: the call is a
\* statement, and the function ends in Ok(..).
try_parse_plain_scalar(q, context, start_pos) ==
    LET q1 == re_lex(q, context)
        m  == marker(q1)
        q2 == start(q1)
        r  == expect_in_implicit_constrain(q2, "PLAIN_LITERAL", start_pos)
    IN  [q |-> complete(r.q, m, "YAML_PLAIN_SCALAR"), res |-> "Ok"]

\* Result: "Err", or Ok(Present) / Ok(Absent) as "Present" / "Absent".
try_parse_implicit_flow_yaml_node(q) ==
    IF ~at(q, "PLAIN_LITERAL")
    THEN [q |-> q, res |-> "Absent"]
    ELSE LET m         == marker(q)
             q1        == start(q)
             start_pos == position(q1)
             r         == try_parse_plain_scalar(q1, "BlockKey", start_pos)
         IN  IF r.res = "Err"
             THEN [q |-> r.q, res |-> "Err"]
             ELSE [q |-> complete(r.q, m, "YAML_FLOW_YAML_NODE"), res |-> "Present"]

(***************************************************************************)
(* block.rs: functions without recursion.                                  *)
(***************************************************************************)
is_at_explicit_mapping_key(q) == at(q, "QUESTION")

is_at_block_scalar(q) ==
    at(q, "LITERAL_BLOCK_LITERAL") \/ at(q, "FOLDED_BLOCK_LITERAL")

is_at_list_end(q) == at(q, "DEDENT") \/ at(q, "DOC_END")

\* Recovery that also stops at the end of the document.
is_at_recovered_or_doc_end(q) == at(q, "DEDENT") \/ at(q, "DOC_END")

is_at_recovered(q) == at(q, "DEDENT")

parse_flow_in_block_node(q) ==
    LET m  == marker(q)
        q1 == start(q)
        q2 == parse_any_flow_node(q1, "FlowOut")
        q3 == expect(q2, "NEWLINE")
    IN  complete(q3, m, "YAML_FLOW_IN_BLOCK_NODE")

parse_literal_scalar(q) ==
    LET m  == marker(q)
        q1 == start(q)
        q2 == bump(q1, "LITERAL_BLOCK_LITERAL")
    IN  complete(q2, m, "YAML_LITERAL_SCALAR")

parse_folded_scalar(q) ==
    LET m  == marker(q)
        q1 == start(q)
        q2 == bump(q1, "FOLDED_BLOCK_LITERAL")
    IN  complete(q2, m, "YAML_FOLDED_SCALAR")

parse_block_scalar(q) ==
    LET m  == marker(q)
        q1 == start(q)
        q2 == IF at(q1, "LITERAL_BLOCK_LITERAL") THEN parse_literal_scalar(q1)
              ELSE IF at(q1, "FOLDED_BLOCK_LITERAL") THEN parse_folded_scalar(q1)
              ELSE q1
    IN  complete(q2, m, "YAML_BLOCK_SCALAR")

\* The key parsed under the context of a value.
parse_block_map_implicit_key_flow_out(q) == parse_flow_yaml_node(q, "FlowOut")

parse_block_map_implicit_key(q) == parse_flow_yaml_node(q, "BlockKey")

\* ParseRecovery::recover's loop: bump tokens until the recovery set or EOF.
RECURSIVE bump_until_recovered(_)
bump_until_recovered(q) ==
    IF is_at_recovered(q) \/ at(q, "EOF") THEN q
    ELSE bump_until_recovered(do_bump(q))

\* ParsedSyntax::or_recover with BlockMapEntryListParseRecovery: a Present
\* element passes through; an Absent one is replaced by a bogus node holding
\* the skipped tokens, unless the parser is at EOF or already recovered; the
\* diagnostic is reported either way.
or_recover(q, parsed_element, diagnostic) ==
    IF parsed_element = "Present"
    THEN [q |-> q, res |-> "Ok"]
    ELSE IF at(q, "EOF") \/ is_at_recovered(q)
    THEN [q |-> error(q, diagnostic), res |-> "Err"]
    ELSE LET m  == marker(q)
             q1 == start(q)
             q2 == bump_until_recovered(q1)
             q3 == complete(q2, m, "YAML_BOGUS_BLOCK_MAP_ENTRY")
         IN  [q |-> error(q3, diagnostic), res |-> "Ok"]

expected_block_mapping == Diag("expected_block_mapping", "-")

\* The element passed on as it is, with no recovery for an Absent one.
recover_nothing(q, parsed_element) == [q |-> q, res |-> "Ok"]

\* BlockMapEntryList::recover
recover(q, parsed_element) == or_recover(q, parsed_element, expected_block_mapping)

(***************************************************************************)
(* Call stack.                                                             *)
(***************************************************************************)
\* m: the frame's open marker; it: cursor at the start of the list iteration;
\* lvl: indent_level on entry; cp, key: the probe's checkpoint and outcome;
\* before: the parser as it was when the probe was called.
Frame(fn) ==
    [fn |-> fn, pc |-> 0, m |-> 0, it |-> 0, lvl |-> 0,
     cp |-> NoCheckpoint, key |-> "None", before |-> <<>>]

Observable(q) == <<q.pos, q.cur, q.events, q.diags, q.indent_level>>

Top == stack[Len(stack)]

Caller == SubSeq(stack, 1, Len(stack) - 1)

Running(fn, pc) ==
    /\ status = "running"
    /\ stack # <<>>
    /\ Top.fn = fn
    /\ Top.pc = pc

\* Publish the parser record q, the new stack and the returned value; a failed
\* bump assertion stops the parse where it is.
CommitProbed(qq, newstack, r, newprobed) ==
    \E q \in {qq} :
    /\ pos' = q.pos
    /\ cur' = q.cur
    /\ events' = q.events
    /\ diags' = q.diags
    /\ indent_level' = q.indent_level
    /\ IF q.panic
       THEN /\ status' = "panic"
            /\ stack' = stack
            /\ ret' = ret
       ELSE /\ stack' = newstack
            /\ ret' = r
            /\ status' = IF newstack = <<>> THEN "done" ELSE "running"
    /\ probed' = newprobed
    /\ UNCHANGED input

Commit(q, newstack, r) == CommitProbed(q, newstack, r, probed)

Call(frame, fn) == Append(Append(Caller, frame), Frame(fn))

TailCall(fn) == Append(Caller, Frame(fn))

Init ==
    /\ input \in Inputs
    /\ pos = 1
    /\ cur = Lex(1, "Regular")
    /\ events = <<>>
    /\ diags = <<>>
    /\ indent_level = 0
    /\ stack = <<Frame("parse_any_block_node")>>
    /\ ret = "None"
    /\ status = "running"
    /\ probed = {}

InitLong ==
    /\ input \in LongInputs
    /\ pos = 1
    /\ cur = Lex(1, "Regular")
    /\ events = <<>>
    /\ diags = <<>>
    /\ indent_level = 0
    /\ stack = <<Frame("parse_any_block_node")>>
    /\ ret = "None"
    /\ status = "running"
    /\ probed = {}

(***************************************************************************)
(* block.rs: the recursive descent.                                        *)
(***************************************************************************)
\* if is_at_block_node(p) ...
parse_any_block_node ==
    /\ Running("parse_any_block_node", 0)
    /\ Commit(P, Call([Top EXCEPT !.pc = 1], "is_at_block_node"), ret)

is_at_block_node ==
    /\ Running("is_at_block_node", 0)
    /\ Commit(P, TailCall("is_at_block_mapping"), ret)

is_at_block_mapping ==
    /\ Running("is_at_block_mapping", 0)
    /\ IF is_at_explicit_mapping_key(P)
       THEN Commit(P, Caller, "True")
       ELSE Commit(P, TailCall("is_at_implicit_mapping_key"), ret)

\* checkpoint, then the speculative parse of the key
is_at_implicit_mapping_key ==
    /\ Running("is_at_implicit_mapping_key", 0)
    /\ LET c == checkpoint(P)
           r == try_parse_implicit_flow_yaml_node(P)
       IN  Commit(r.q,
                  Append(Caller, [Top EXCEPT !.pc = 1, !.cp = c, !.key = r.res,
                                            !.before = Observable(P)]),
                  ret)

\* The probe answering without the rewind.
is_at_implicit_mapping_key_no_rewind ==
    /\ Running("is_at_implicit_mapping_key", 1)
    /\ LET violated_implicit_key_constraint == Top.key = "Err"
           absent          == Top.key = "Absent"
           is_at_indicator == at(P, "COLON")
       IN  Commit(P, Caller,
                  IF ~violated_implicit_key_constraint /\ is_at_indicator /\ ~absent
                  THEN "True" ELSE "False")

\* look for the indicator, rewind, answer
is_at_implicit_mapping_key_rewind ==
    /\ Running("is_at_implicit_mapping_key", 1)
    /\ LET violated_implicit_key_constraint == Top.key = "Err"
           absent          == Top.key = "Absent"
           is_at_indicator == at(P, "COLON")
           q               == rewind(P, Top.cp)
           answer          == IF ~violated_implicit_key_constraint /\ is_at_indicator /\ ~absent
                              THEN "True" ELSE "False"
       IN  CommitProbed(q, Caller, answer,
                        probed \cup {[at |-> Top.cp.pos, key |-> Top.key, answer |-> answer]})

parse_any_block_node_dispatch ==
    /\ Running("parse_any_block_node", 1)
    /\ IF ret = "True"
       THEN Commit(P, Call([Top EXCEPT !.pc = 2], "parse_block_in_block_node"), ret)
       ELSE IF is_at_any_flow_node(P)
       THEN Commit(parse_flow_in_block_node(P), Caller, "Present")
       ELSE Commit(P, Caller, "Absent")

parse_any_block_node_present ==
    /\ Running("parse_any_block_node", 2)
    /\ Commit(P, Caller, "Present")

parse_block_in_block_node ==
    /\ Running("parse_block_in_block_node", 0)
    /\ IF is_at_block_scalar(P)
       THEN Commit(parse_block_scalar(P), Caller, "Completed")
       ELSE Commit(P, TailCall("parse_block_collection"), ret)

parse_block_collection ==
    /\ Running("parse_block_collection", 0)
    /\ LET m  == marker(P)
           q1 == start(P)
           q2 == IF q1.indent_level # 0 THEN expect(q1, "INDENT") ELSE q1
           q3 == [q2 EXCEPT !.indent_level = @ + 1]
       IN  Commit(q3,
                  Call([Top EXCEPT !.pc = 1, !.m = m, !.lvl = indent_level],
                       "parse_block_mapping"),
                  ret)

\* The collection left without the decrement.
parse_block_collection_exit_no_decrement ==
    /\ Running("parse_block_collection", 1)
    /\ Commit(complete(eat(P, "DEDENT"), Top.m, "YAML_BLOCK_COLLECTION"), Caller, "Completed")

parse_block_collection_exit ==
    /\ Running("parse_block_collection", 1)
    /\ LET q1 == [P EXCEPT !.indent_level = @ - 1]
           q2 == eat(q1, "DEDENT")
       IN  Commit(complete(q2, Top.m, "YAML_BLOCK_COLLECTION"), Caller, "Completed")

parse_block_mapping ==
    /\ Running("parse_block_mapping", 0)
    /\ Commit(start(P),
              Call([Top EXCEPT !.pc = 1, !.m = marker(P)], "parse_list"),
              ret)

\* The mapping left with its marker still open.
parse_block_mapping_exit_no_complete ==
    /\ Running("parse_block_mapping", 1)
    /\ Commit(P, Caller, "Completed")

parse_block_mapping_exit ==
    /\ Running("parse_block_mapping", 1)
    /\ Commit(complete(P, Top.m, "YAML_BLOCK_MAPPING"), Caller, "Completed")

\* ParseNodeList::parse_list for BlockMapEntryList: start_list
parse_list ==
    /\ Running("parse_list", 0)
    /\ Commit(start(P), Append(Caller, [Top EXCEPT !.pc = 1, !.m = marker(P)]), ret)

\* while !p.at(EOF) && !self.is_at_list_end(p) { parse_element ... } finish_list
parse_list_loop ==
    /\ Running("parse_list", 1)
    /\ IF at(P, "EOF") \/ is_at_list_end(P)
       THEN Commit(complete(P, Top.m, "YAML_BLOCK_MAP_ENTRY_LIST"), Caller, "Completed")
       ELSE Commit(P, Call([Top EXCEPT !.pc = 2, !.it = pos], "parse_block_map_entry"), ret)

\* if self.recover(p, parsed_element).is_err() { break; }
parse_list_recover ==
    /\ Running("parse_list", 2)
    /\ LET r == recover(P, ret)
       IN  IF r.res = "Err"
           THEN Commit(complete(r.q, Top.m, "YAML_BLOCK_MAP_ENTRY_LIST"), Caller, "Completed")
           ELSE Commit(r.q, Append(Caller, [Top EXCEPT !.pc = 1]), ret)

parse_block_map_entry ==
    /\ Running("parse_block_map_entry", 0)
    /\ IF is_at_explicit_mapping_key(P)
       THEN Commit(P, TailCall("parse_block_map_explicit_entry"), ret)
       ELSE Commit(P, TailCall("parse_block_map_implicit_entry"), ret)

parse_block_map_explicit_entry ==
    /\ Running("parse_block_map_explicit_entry", 0)
    /\ IF ~is_at_explicit_mapping_key(P)
       THEN Commit(P, Caller, "Absent")
       ELSE Commit(start(P),
                   Call([Top EXCEPT !.pc = 1, !.m = marker(P)],
                        "parse_block_map_explicit_key"),
                   ret)

parse_block_map_explicit_entry_value ==
    /\ Running("parse_block_map_explicit_entry", 1)
    /\ Commit(P, Call([Top EXCEPT !.pc = 2], "parse_block_map_explicit_value"), ret)

parse_block_map_explicit_entry_exit ==
    /\ Running("parse_block_map_explicit_entry", 2)
    /\ Commit(complete(P, Top.m, "YAML_BLOCK_MAP_EXPLICIT_ENTRY"), Caller, "Present")

parse_block_map_explicit_key ==
    /\ Running("parse_block_map_explicit_key", 0)
    /\ Commit(bump(start(P), "QUESTION"),
              Call([Top EXCEPT !.pc = 1, !.m = marker(P)], "parse_any_block_node"),
              ret)

parse_block_map_explicit_key_exit ==
    /\ Running("parse_block_map_explicit_key", 1)
    /\ Commit(complete(P, Top.m, "YAML_BLOCK_MAP_EXPLICIT_KEY"), Caller, "Completed")

parse_block_map_explicit_value ==
    /\ Running("parse_block_map_explicit_value", 0)
    /\ Commit(expect(start(P), "COLON"),
              Call([Top EXCEPT !.pc = 1, !.m = marker(P)], "parse_any_block_node"),
              ret)

parse_block_map_explicit_value_exit ==
    /\ Running("parse_block_map_explicit_value", 1)
    /\ Commit(complete(P, Top.m, "YAML_BLOCK_MAP_EXPLICIT_VALUE"), Caller, "Completed")

parse_block_map_implicit_entry ==
    /\ Running("parse_block_map_implicit_entry", 0)
    /\ IF ~is_at_flow_yaml_node(P)
       THEN Commit(P, Caller, "Absent")
       ELSE Commit(parse_block_map_implicit_key(start(P)),
                   Call([Top EXCEPT !.pc = 1, !.m = marker(P)],
                        "parse_block_map_implicit_value"),
                   ret)

parse_block_map_implicit_entry_exit ==
    /\ Running("parse_block_map_implicit_entry", 1)
    /\ Commit(complete(P, Top.m, "YAML_BLOCK_MAP_IMPLICIT_ENTRY"), Caller, "Present")

parse_block_map_implicit_value ==
    /\ Running("parse_block_map_implicit_value", 0)
    /\ Commit(bump(start(P), "COLON"),
              Call([Top EXCEPT !.pc = 1, !.m = marker(P)], "parse_any_block_node"),
              ret)

\* Value can be completely empty: then a NEWLINE is eaten if there is one.
parse_block_map_implicit_value_exit ==
    /\ Running("parse_block_map_implicit_value", 1)
    /\ LET q == IF ret = "Absent" THEN eat(P, "NEWLINE") ELSE P
       IN  Commit(complete(q, Top.m, "YAML_BLOCK_MAP_IMPLICIT_VALUE"), Caller, "Completed")

Next ==
    \/ parse_any_block_node
    \/ is_at_block_node
    \/ is_at_block_mapping
    \/ is_at_implicit_mapping_key
    \/ is_at_implicit_mapping_key_rewind
    \/ parse_any_block_node_dispatch
    \/ parse_any_block_node_present
    \/ parse_block_in_block_node
    \/ parse_block_collection
    \/ parse_block_collection_exit
    \/ parse_block_mapping
    \/ parse_block_mapping_exit
    \/ parse_list
    \/ parse_list_loop
    \/ parse_list_recover
    \/ parse_block_map_entry
    \/ parse_block_map_explicit_entry
    \/ parse_block_map_explicit_entry_value
    \/ parse_block_map_explicit_entry_exit
    \/ parse_block_map_explicit_key
    \/ parse_block_map_explicit_key_exit
    \/ parse_block_map_explicit_value
    \/ parse_block_map_explicit_value_exit
    \/ parse_block_map_implicit_entry
    \/ parse_block_map_implicit_entry_exit
    \/ parse_block_map_implicit_value
    \/ parse_block_map_implicit_value_exit

Spec == Init /\ [][Next]_vars

\* The same parse over the longer sources.
SpecLong == InitLong /\ [][Next]_vars

\* The descent runs without suspension points: every enabled step is taken.
FairSpec == Spec /\ WF_vars(Next)

TypeOK ==
    /\ input \in Inputs \cup LongInputs
    /\ pos \in 1..(Len(input) + 1)
    /\ cur.kind \in StructuralKinds \cup {"PLAIN_LITERAL", "EOF"}
    /\ indent_level \in Int
    /\ status \in {"running", "done", "panic"}

(***************************************************************************)
(* Views of the emitted tree.                                              *)
(***************************************************************************)
IsTok(e) == e.e = "tok"

IsPlaced(e) == e.e # "missing"

Toks == SelectSeq(events, IsTok)

Kinds(seq) == [i \in DOMAIN seq |-> seq[i].kind]

StartsOf(kind) == {i \in DOMAIN events : events[i].e = "start" /\ events[i].kind = kind}

\* Characters covered by a token event.
TokLen(e) == Offset(e.at + e.n) - Offset(e.at)

\* The key token of the implicit entry opened at event i: entry, flow node and
\* plain scalar are opened, then the key is consumed.
KeyOf(i) == events[i + 3]

\* C1 (Bounded key law): every YAML_BLOCK_MAP_IMPLICIT_ENTRY in the tree has a
\* key of at most 1024 characters that contains no line break.
BoundedKeyLaw ==
    \A i \in StartsOf("YAML_BLOCK_MAP_IMPLICIT_ENTRY") :
        /\ TokLen(KeyOf(i)) <= MAX_IMPLICIT_KEY_SIZE
        /\ \A j \in KeyOf(i).at..(KeyOf(i).at + KeyOf(i).n - 1) : input[j].kind # "NEWLINE"

\* C2 (Probe purity): when is_at_implicit_mapping_key returns, cursor, current
\* token, tree events, diagnostics and indent_level are what they were when it
\* was called.
ProbePurity ==
    [][is_at_implicit_mapping_key_rewind =>
        <<pos', cur', events', diags', indent_level'>> = Top.before]_vars

\* The probe consumed a key, saw the indicator and has returned true.
ProbePurityWitness ==
    /\ Running("parse_any_block_node", 1)
    /\ ret = "True"
    /\ cur.kind = "PLAIN_LITERAL"

\* C3 (Losslessness): the token events are exactly the input from its start up
\* to the cursor, in order, none skipped and none twice.
Lossless ==
    LET t == Toks
    IN  /\ \A i \in DOMAIN t :
            /\ t[i].at = (IF i = 1 THEN 1 ELSE t[i - 1].at + t[i - 1].n)
            /\ t[i].n >= 1
            /\ t[i].kind = input[t[i].at].kind
        /\ pos = (IF t = <<>> THEN 1 ELSE t[Len(t)].at + t[Len(t)].n)

\* A finished parse that holds a key parsed again after its probe was rewound,
\* and a bogus entry.
LosslessWitness ==
    /\ status = "done"
    /\ StartsOf("YAML_BLOCK_MAP_IMPLICIT_ENTRY") # {}
    /\ StartsOf("YAML_BOGUS_BLOCK_MAP_ENTRY") # {}
    /\ pos = Len(input) + 1

\* C4 (No input is fatal): no bump(kind) is made while the current token has
\* another kind.
NoBumpAssertionFails == status # "panic"

\* C5 (Forward progress): a list iteration that stays in the loop has moved the
\* cursor forward, and the parse comes to an end.
ForwardProgress ==
    /\ [][(parse_list_recover /\ Len(stack') = Len(stack) /\ status' = "running")
            => pos' > Top.it]_vars
    /\ [](status = "running" => <>(status \in {"done", "panic"}))

\* The loop is back at its head after an iteration that went through recovery.
ForwardProgressWitness ==
    /\ Running("parse_list", 1)
    /\ Top.it > 0
    /\ pos > Top.it
    /\ StartsOf("YAML_BOGUS_BLOCK_MAP_ENTRY") # {}

\* C6 (Balanced nesting): parse_block_collection returns with the indent_level
\* it was entered with; indent_level is never negative and is 0 when the parse
\* is finished.
BalancedNesting ==
    /\ [][parse_block_collection_exit => indent_level' = Top.lvl]_vars
    /\ [](indent_level >= 0)
    /\ [](status = "done" => indent_level = 0)

\* A finished parse with a collection nested in another one and a bogus entry.
BalancedNestingWitness ==
    /\ status = "done"
    /\ Cardinality(StartsOf("YAML_BLOCK_COLLECTION")) >= 2
    /\ indent_level = 0

\* C7 (Block scalar as mapping value): key, ':' and a block-scalar literal give
\* a YAML_BLOCK_SCALAR, no bogus entry and no diagnostic.
BlockScalarAsValue ==
    (/\ status # "running"
     /\ Len(input) = 3
     /\ input[1].kind = "PLAIN_LITERAL"
     /\ input[2].kind = "COLON"
     /\ input[3].kind \in {"LITERAL_BLOCK_LITERAL", "FOLDED_BLOCK_LITERAL"})
    => /\ StartsOf("YAML_BLOCK_SCALAR") # {}
       /\ StartsOf("YAML_BOGUS_BLOCK_MAP_ENTRY") = {}
       /\ diags = <<>>

\* C8 (Violation outcome): once the speculative parse of a key has gone more
\* than 1024 characters past the probe's start, the prober's outcome is the
\* constraint violation, and is_at_implicit_mapping_key answers false for a
\* scalar longer than 1024 characters.
ViolationOutcome ==
    /\ (/\ Running("is_at_implicit_mapping_key", 1)
        /\ Top.cp.cur.kind = "PLAIN_LITERAL"
        /\ position(P) - Offset(Top.cp.pos) > MAX_IMPLICIT_KEY_SIZE
        /\ at(P, "COLON"))
       => Top.key = "Err"
    /\ (/\ Running("parse_any_block_node", 1)
        /\ cur.kind = "PLAIN_LITERAL"
        /\ input[pos].len > MAX_IMPLICIT_KEY_SIZE)
       => ret = "False"

\* First DEDENT at or after unit i.
NextDedent(i) ==
    CHOOSE d \in i..Len(input) :
        /\ input[d].kind = "DEDENT"
        /\ \A j \in i..(d - 1) : input[j].kind # "DEDENT"

\* C9 (Recovery shape): recovery from an Absent entry with a DEDENT ahead adds
\* one bogus entry holding exactly the tokens up to that DEDENT and one
\* 'expected block mapping entry' diagnostic, and the loop ends at the DEDENT.
RecoveryShape ==
    /\ [][(/\ parse_list_recover
           /\ ret = "Absent"
           /\ \E d \in pos..Len(input) : input[d].kind = "DEDENT")
          => LET d   == NextDedent(pos)
                 new == SubSeq(events', Len(events) + 1, Len(events'))
             IN  /\ SubSeq(events', 1, Len(events)) = events
                 /\ Len(new) = (d - pos) + 2
                 /\ new[1] = Ev("start", "YAML_BOGUS_BLOCK_MAP_ENTRY", 0, 0, "-")
                 /\ \A i \in 1..(d - pos) :
                        /\ new[i + 1].e = "tok"
                        /\ new[i + 1].at = pos + i - 1
                        /\ new[i + 1].n = 1
                        /\ new[i + 1].kind = input[pos + i - 1].kind
                 /\ new[Len(new)].e = "finish"
                 /\ diags' = Append(diags, Diag("expected_block_mapping", "-"))
                 /\ pos' = d
                 /\ cur'.kind = "DEDENT"
                 /\ stack' = Append(Caller, [Top EXCEPT !.pc = 1])]_vars
    /\ [][(parse_list_loop /\ cur.kind = "DEDENT")
          => /\ stack' = Caller
             /\ pos' = pos
             /\ events' = Append([events EXCEPT ![Top.m].kind = "YAML_BLOCK_MAP_ENTRY_LIST"],
                                 Ev("finish", "YAML_BLOCK_MAP_ENTRY_LIST", 0, 0, "-"))]_vars

\* The list has ended at a DEDENT that stopped a recovery of two tokens or more.
RecoveryShapeWitness ==
    /\ Running("parse_block_mapping", 1)
    /\ cur.kind = "DEDENT"
    /\ \E i \in StartsOf("YAML_BOGUS_BLOCK_MAP_ENTRY") :
          /\ events[i + 1].e = "tok"
          /\ events[i + 2].e = "tok"
          /\ events[i + 3].e = "finish"

\* The tree of `key: value`: scalar at unit k as the key, ':' and scalar at
\* unit v as the value.
ImplicitEntryTree(k, v) ==
    << Ev("start", "YAML_BLOCK_COLLECTION", 0, 0, "-"),
       Ev("start", "YAML_BLOCK_MAPPING", 0, 0, "-"),
       Ev("start", "YAML_BLOCK_MAP_ENTRY_LIST", 0, 0, "-"),
       Ev("start", "YAML_BLOCK_MAP_IMPLICIT_ENTRY", 0, 0, "-"),
       Ev("start", "YAML_FLOW_YAML_NODE", 0, 0, "-"),
       Ev("start", "YAML_PLAIN_SCALAR", 0, 0, "-"),
       Ev("tok", "PLAIN_LITERAL", k, 1, "BlockKey"),
       Ev("finish", "YAML_PLAIN_SCALAR", 0, 0, "-"),
       Ev("finish", "YAML_FLOW_YAML_NODE", 0, 0, "-"),
       Ev("start", "YAML_BLOCK_MAP_IMPLICIT_VALUE", 0, 0, "-"),
       Ev("tok", "COLON", k + 1, 1, "Regular"),
       Ev("start", "YAML_FLOW_IN_BLOCK_NODE", 0, 0, "-"),
       Ev("start", "YAML_FLOW_YAML_NODE", 0, 0, "-"),
       Ev("start", "YAML_PLAIN_SCALAR", 0, 0, "-"),
       Ev("tok", "PLAIN_LITERAL", v, 1, "FlowOut"),
       Ev("finish", "YAML_PLAIN_SCALAR", 0, 0, "-"),
       Ev("finish", "YAML_FLOW_YAML_NODE", 0, 0, "-"),
       Ev("finish", "YAML_FLOW_IN_BLOCK_NODE", 0, 0, "-"),
       Ev("finish", "YAML_BLOCK_MAP_IMPLICIT_VALUE", 0, 0, "-"),
       Ev("finish", "YAML_BLOCK_MAP_IMPLICIT_ENTRY", 0, 0, "-"),
       Ev("finish", "YAML_BLOCK_MAP_ENTRY_LIST", 0, 0, "-"),
       Ev("finish", "YAML_BLOCK_MAPPING", 0, 0, "-"),
       Ev("finish", "YAML_BLOCK_COLLECTION", 0, 0, "-") >>

IsKeyColonValue == Kinds(input) = <<"PLAIN_LITERAL", "COLON", "PLAIN_LITERAL">>

\* C10 (Implicit entry with inline value): PLAIN_LITERAL COLON PLAIN_LITERAL
\* parses to one block collection whose mapping has one implicit entry, the key
\* lexed under BlockKey, the value a flow-in-block node lexed under FlowOut,
\* and no bogus entry.
ImplicitEntryInlineValue ==
    (IsKeyColonValue /\ status # "running")
    => /\ status = "done"
       /\ SelectSeq(events, IsPlaced) = ImplicitEntryTree(1, 3)

ImplicitEntryInlineValueWitness ==
    /\ IsKeyColonValue
    /\ status = "done"
    /\ Cardinality(StartsOf("YAML_BLOCK_MAP_IMPLICIT_ENTRY")) = 1

\* The finish event that closes the node opened at event i, 0 if it is open.
RECURSIVE Close(_, _)
Close(i, depth) ==
    IF i > Len(events) THEN 0
    ELSE IF events[i].e = "start" THEN Close(i + 1, depth + 1)
    ELSE IF events[i].e = "finish"
    THEN (IF depth = 1 THEN i ELSE Close(i + 1, depth - 1))
    ELSE Close(i + 1, depth)

Match(i) == Close(i + 1, 1)

IsStart(i, kind) ==
    /\ i \in DOMAIN events
    /\ events[i].e = "start"
    /\ events[i].kind = kind

\* The '?' tokens consumed as the start of an explicit key.
ExplicitKeyTokens ==
    {i \in DOMAIN events :
        /\ events[i].e = "tok"
        /\ events[i].kind = "QUESTION"
        /\ i > 1
        /\ events[i - 1].e = "start"
        /\ events[i - 1].kind # "YAML_BOGUS_BLOCK_MAP_ENTRY"}

\* The node opened at event i holds the token of unit u.
Holds(i, u) ==
    \E j \in (i + 1)..(Match(i) - 1) : events[j].e = "tok" /\ events[j].at = u

IsExplicitScenario ==
    Kinds(input) = <<"QUESTION", "PLAIN_LITERAL", "NEWLINE",
                     "COLON", "PLAIN_LITERAL", "NEWLINE">>

\* C11 (Explicit entry): once the parse is over, every '?' met by the entry
\* list stands in one YAML_BLOCK_MAP_EXPLICIT_ENTRY made of one explicit-key
\* node and then one explicit-value node, each with or without a nested node;
\* for '? scalar NEWLINE : scalar NEWLINE' the key holds the first scalar and
\* the value the second, with no diagnostics.
ExplicitEntry ==
    status # "running" =>
        /\ \A i \in ExplicitKeyTokens :
              /\ IsStart(i - 2, "YAML_BLOCK_MAP_EXPLICIT_ENTRY")
              /\ IsStart(i - 1, "YAML_BLOCK_MAP_EXPLICIT_KEY")
              /\ Match(i - 1) # 0
              /\ IsStart(Match(i - 1) + 1, "YAML_BLOCK_MAP_EXPLICIT_VALUE")
              /\ Match(Match(i - 1) + 1) # 0
              /\ Match(i - 2) = Match(Match(i - 1) + 1) + 1
        /\ IsExplicitScenario =>
              /\ Cardinality(StartsOf("YAML_BLOCK_MAP_EXPLICIT_ENTRY")) = 1
              /\ \A i \in StartsOf("YAML_BLOCK_MAP_EXPLICIT_KEY") : Holds(i, 2)
              /\ \A i \in StartsOf("YAML_BLOCK_MAP_EXPLICIT_VALUE") : Holds(i, 5)
              /\ diags = <<>>

\* At the cursor: INDENT, an implicit entry, and further on the DEDENT that
\* closes the INDENT, with no other INDENT or DEDENT in between.
NestedMappingAhead ==
    /\ cur.kind = "INDENT"
    /\ pos + 2 <= Len(input)
    /\ input[pos + 1].kind = "PLAIN_LITERAL"
    /\ input[pos + 2].kind = "COLON"
    /\ \E d \in (pos + 3)..Len(input) :
          /\ input[d].kind = "DEDENT"
          /\ \A j \in (pos + 1)..(d - 1) : input[j].kind \notin {"INDENT", "DEDENT"}

\* C12 (Nested collection delimiters): at a value position inside a mapping, a
\* nested mapping given as INDENT, entries, DEDENT is taken by
\* parse_any_block_node as a block node, so that the collection starts with
\* that INDENT.
NestedDelimiters ==
    (/\ Running("parse_any_block_node", 1)
     /\ indent_level # 0
     /\ NestedMappingAhead)
    => ret = "True"

\* The markers that are open: started and not yet completed into a node.
OpenMarkers == {i \in DOMAIN events : events[i].e = "start" /\ events[i].kind = "TOMBSTONE"}

\* The frames of functions that have opened a marker and not yet returned.
MarkerFrames == {j \in DOMAIN stack : stack[j].m # 0}

ScalarTokens ==
    {i \in DOMAIN events : /\ events[i].e = "tok"
                           /\ events[i].kind = "PLAIN_LITERAL"
                           /\ i > 1
                           /\ IsStart(i - 1, "YAML_PLAIN_SCALAR")}

\* The context supplied for the node of the scalar token at i.
SuppliedContext(i) ==
    IF IsStart(i - 3, "YAML_FLOW_IN_BLOCK_NODE") THEN "FlowOut" ELSE "BlockKey"

\* C14 (Re-lex before consume): every PLAIN_LITERAL consumed as a plain
\* scalar is consumed as lexed under the context supplied for its node, that
\* is, re_lex under that context ran after the previous token was consumed:
\* FlowOut for a flow-in-block node, BlockKey for an implicit key, in the
\* probe and in the committed parse.
ReLexBeforeConsume ==
    \A i \in ScalarTokens : events[i].ctx = SuppliedContext(i)

\* A finished parse with a committed key, a flow-in-block value, and a probe
\* that consumed a literal.
ReLexBeforeConsumeWitness ==
    /\ status = "done"
    /\ \E i \in ScalarTokens : events[i].ctx = "BlockKey"
    /\ \E i \in ScalarTokens : events[i].ctx = "FlowOut"
    /\ \E r \in probed : r.key = "Present"

\* C15 (Probe before commit): whenever an entry of a mapping entry list is
\* about to parse an implicit key for real, the implicit key prober has been
\* called at this cursor position and has answered that a key is present.
ProbeBeforeCommit ==
    (/\ Running("parse_block_map_implicit_entry", 0)
     /\ is_at_flow_yaml_node(P))
    => \E r \in probed : r.at = pos /\ r.answer = "True"

\* INDENTs minus DEDENTs among the first i units of the input.
RECURSIVE Depth(_)
Depth(i) ==
    IF i = 0 THEN 0
    ELSE Depth(i - 1) + (CASE input[i].kind = "INDENT" -> 1
                           [] input[i].kind = "DEDENT" -> -1
                           [] OTHER -> 0)

\* One DEDENT per INDENT, in LIFO order.
ProperlyNested ==
    /\ \A i \in 0..Len(input) : Depth(i) >= 0
    /\ Depth(Len(input)) = 0

\* The DEDENT at unit d closes the INDENT at unit u.
Closes(d, u) ==
    /\ u < d
    /\ Depth(d) = Depth(u - 1)
    /\ \A j \in u..(d - 1) : Depth(j) > Depth(u - 1)

\* The collection node opened at event i has consumed a DEDENT after its
\* entry list.
AteDedent(i) ==
    /\ Match(i) # 0
    /\ events[Match(i) - 1].e = "tok"
    /\ events[Match(i) - 1].kind = "DEDENT"

\* C16 (INDENT/DEDENT pairing per collection): on a token stream whose INDENT
\* and DEDENT tokens are properly nested, a YAML_BLOCK_COLLECTION that has
\* consumed a DEDENT after its entry list has consumed an INDENT before its
\* first entry, and that DEDENT closes that INDENT; so the collection
\* entered at indent_level 0 consumes no DEDENT.
IndentDedentPairing ==
    ProperlyNested =>
        \A i \in StartsOf("YAML_BLOCK_COLLECTION") :
            AteDedent(i) =>
                /\ events[i + 1].e = "tok"
                /\ events[i + 1].kind = "INDENT"
                /\ Closes(events[Match(i) - 1].at, events[i + 1].at)

\* C17 (Recovery respects both list terminators): recovery stops before a
\* token at which the list ends (DEDENT or DOC_END), so no bogus entry built
\* by the recovery contains a DOC_END token.
RecoveryStopsAtListEnd ==
    \A i \in StartsOf("YAML_BOGUS_BLOCK_MAP_ENTRY") :
        \A j \in (i + 1)..(Len(events)) :
            (Match(i) = 0 \/ j < Match(i)) =>
                ~(events[j].e = "tok" /\ events[j].kind \in {"DEDENT", "DOC_END"})

====
